---- MODULE Spec2Model ----
(***************************************************************************)
(* Model of package gcfg (Config): search path management, file path       *)
(* resolution and the cache of parsed configuration documents.             *)
(*                                                                         *)
(* Strings that the code concatenates or trims (paths, file names) are     *)
(* sequences of tokens, so prefix+name is \o and TrimRight is computed.    *)
(***************************************************************************)
EXTENDS Integers, Sequences, FiniteSets, Bags, TLC

\* ------------------------------------------------------------------------
\* The environment: goroutines, directories, files, names
\* ------------------------------------------------------------------------
Procs == {"g1", "g2"}
NoProc == "none"

Sep == "/"
DirA == <<"/", "a">>
DirB == <<"/", "b">>
NoDir == <<"/", "n">>
DirASlash == <<"/", "a", "/">>
NameX == <<"x.json">>
NameY == <<"y.json">>
Names == {NameX, NameY}

\* Instance(name...): the keys of the registry ("config" is the key of a
\* call without a name) and the arguments given.
DefaultKey == "config"
Keys == {DefaultKey, "x"}
InstArgs == {"", DefaultKey, "x"}

DefaultConfigFile == <<"config.toml">>
supportedFileTypes == <<"toml", "yaml", "json", "ini", "xml">>

\* Bound on the times the construction function of Instance runs per key.
MaxBuilt == 3
Empty == <<>>

FileAX == <<"/", "a", "/", "x.json">>
FileAY == <<"/", "a", "/", "config", "/", "y.json">>
FileBX == <<"/", "b", "/", "x.json">>
FileBY == <<"/", "b", "/", "y.json">>
DirAConfig == <<"/", "a", "/", "config">>

\* Directories and files of the real file system: /a holds x.json and
\* config/y.json. The files that exist are the domain of the variable files
\* (FsFiles, or FsFilesBoth when /b holds x.json and y.json too); existence
\* is fixed during a run, the content of the files in Mutable changes.
FsDirs == {DirA, DirB, DirAConfig}
FsFiles == {FileAX, FileAY}
FsFilesBoth == FsFiles \cup {FileBX, FileBY}
Mutable == {FileAX}
Contents == {"ok", "bad"}

\* gfile.SelfDir() and gfile.Pwd() of the process.
SelfDir == DirA
Pwd == DirA

\* Arguments given to AddPath / SetPath: two directories, a directory with a
\* trailing separator, a path that does not exist, a relative file name.
PathArgs == {DirA, DirB, DirASlash, NoDir, NameX}

\* Bound on the length of the search path array.
MaxPaths == 4

\* Bound on the callbacks the watcher holds.
MaxWatch == 2

\* nil: no entry in the map, and the value of a failed computation.
NoDoc == [src |-> "nil", path |-> Empty, content |-> "", vc |-> FALSE]

VARIABLES
    searchPaths,    \* c.searchPaths: the array of directories
    jsonMap,        \* c.jsonMap: name -> document (NoDoc: no entry)
    keyLock,        \* jsonMap's exclusivity scope per key: holder or NoProc
    violenceCheck,  \* c.violenceCheck
    files,          \* content of the files of the file system
    watches,        \* gfsnotify: bag of the <<path, name>> callbacks added
    pending,        \* gfsnotify: paths with an undelivered change event
    configs,        \* inline content registered by name (Empty: none)
    gres,           \* the resource overlay: [dirs, files]
    mainPkg,        \* gfile.MainPkgPath()
    built,          \* Instance: times the construction function ran, per key
    pc,             \* position of each goroutine
    loc             \* locals of each goroutine's current call

vars == <<searchPaths, jsonMap, keyLock, violenceCheck, files, watches,
          pending, configs, gres, mainPkg, built, pc, loc>>

\* ------------------------------------------------------------------------
\* Helpers (collaborators of the package)
\* ------------------------------------------------------------------------
Range(s) == {s[i] : i \in 1..Len(s)}

Min(S) == CHOOSE i \in S : \A j \in S : i <= j

RECURSIVE TrimRight(_)
\* gstr.TrimRight(v, `\/`)
TrimRight(s) ==
    IF s = <<>> THEN s
    ELSE IF s[Len(s)] \in {"/", "\\"} THEN TrimRight(SubSeq(s, 1, Len(s) - 1))
    ELSE s

IsPrefix(d, p) == Len(d) <= Len(p) /\ SubSeq(p, 1, Len(d)) = d

\* gres.Get(path) # nil
gresGet(path) == path \in (gres.dirs \cup gres.files)
gresIsEmpty == gres.dirs \cup gres.files = {}
gresContains(path) == gresGet(path)
gresIsDir(path) == path \in gres.dirs

\* gfile.RealPath(path): the cleaned absolute path when it exists, else "".
RealPath(path) ==
    LET p == TrimRight(path)
    IN  IF p # <<>> /\ p[1] = Sep /\ p \in (FsDirs \cup DOMAIN files) THEN p ELSE <<>>

IsDir(path) == path \in FsDirs

\* gspath.Search(root, name): the path of name inside directory root, or "".
spathSearch(root, name) ==
    LET p == TrimRight(root) \o <<Sep>> \o name
    IN  IF TrimRight(root) \in FsDirs /\ p \in (FsDirs \cup DOMAIN files) THEN p ELSE <<>>

\* garray.StrArray.Search(v) # -1
arraySearch(array, v) == v \in Range(array)

\* gjson.LoadContent: content that does not parse gives an error.
ParseOk(content) == content # "bad"

resourceTryFiles ==
    << <<>>, <<"/">>, <<"config", "/">>, <<"config">>, <<"/", "config">>,
       <<"/", "config", "/">> >>

\* ------------------------------------------------------------------------
\* Pure functions of Config
\* ------------------------------------------------------------------------
getSearchPaths(array) ==
    IF mainPkg # <<>> /\ ~(mainPkg \in Range(array))
    THEN <<mainPkg>> \o array
    ELSE array

\* FilePath, computed on the list getSearchPaths returned.
FilePathIn(name, sps) ==
    LET T == resourceTryFiles
        bare == {i \in 1..Len(T) : gresGet(T[i] \o name)}
        pre == {k \in 1..Len(sps) : \E i \in 1..Len(T) : gresGet(sps[k] \o T[i] \o name)}
        hit(k) == \/ spathSearch(TrimRight(sps[k]), name) # <<>>
                  \/ spathSearch(TrimRight(sps[k]) \o <<Sep, "config">>, name) # <<>>
        fs == {k \in 1..Len(sps) : hit(k)}
    IN  IF ~gresIsEmpty /\ bare # {} THEN T[Min(bare)] \o name
        ELSE IF ~gresIsEmpty /\ pre # {}
        THEN LET k == Min(pre)
                 i == Min({j \in 1..Len(T) : gresGet(sps[k] \o T[j] \o name)})
             IN  sps[k] \o T[i] \o name
        ELSE IF fs # {}
        THEN LET d == TrimRight(sps[Min(fs)])
             IN  IF spathSearch(d, name) # <<>> THEN spathSearch(d, name)
                 ELSE spathSearch(d \o <<Sep, "config">>, name)
        ELSE <<>>

FilePath(name, array) == FilePathIn(name, getSearchPaths(array))

\* Resolution of the argument of AddPath / SetPath: [real, isDir].
ResolveDir(path, array) ==
    IF gresGet(path) THEN [real |-> path, isDir |-> gresIsDir(path)]
    ELSE LET abs == RealPath(path)
             rel == {k \in 1..Len(array) : spathSearch(array[k], path) # <<>>}
             real == IF abs # <<>> THEN abs
                     ELSE IF rel # {} THEN spathSearch(array[Min(rel)], path)
                     ELSE <<>>
         IN  [real |-> real, isDir |-> (real # <<>> /\ IsDir(real))]

\* The locals of a goroutine that runs no call: ret and err hold what its
\* last call returned.
NoHandle == [key |-> "", id |-> 0, paths |-> <<>>, defaultName |-> Empty]

Idle == [name |-> Empty, real |-> Empty, file |-> Empty,
         doc |-> NoDoc, ret |-> NoDoc, err |-> FALSE, inst |-> NoHandle]

\* ------------------------------------------------------------------------
\* jsonMap: gmap.StrAnyMap with GetOrSetFuncLock (one exclusivity scope per
\* key), Remove and Clear
\* ------------------------------------------------------------------------
\* One lock over the whole map: a reader waits while any key is computed.
SearchBlockedByAnyKey(key) == \E k \in Names : keyLock[k] # NoProc

\* A reader of the map (Search) never waits for a computation.
SearchBlocked(key) == FALSE

\* No exclusivity: the computation starts at once.
LockFreeAlways(key) == TRUE

\* The computation of a key starts when nobody computes that key.
LockFree(key) == keyLock[key] = NoProc

\* The key stays held after the function returned.
mapUnlockNever(l, key) == l

\* The exclusivity scope of a key ends when its function returned.
mapUnlock(l, key) == [l EXCEPT ![key] = NoProc]

\* The value a computation returned is stored unless it is nil.
mapStore(m, key, value) == IF value = NoDoc THEN m ELSE [m EXCEPT ![key] = value]

mapRemove(m, key) == [m EXCEPT ![key] = NoDoc]

mapClear(m) == [n \in DOMAIN m |-> NoDoc]

\* ------------------------------------------------------------------------
\* getJson
\* ------------------------------------------------------------------------
\* getJson(name), up to the first lookup of GetOrSetFuncLock.
getJsonCall(p, n) ==
    /\ pc[p] = "done"
    /\ ~SearchBlocked(n)
    /\ IF jsonMap[n] # NoDoc
       THEN /\ loc' = [loc EXCEPT ![p] = [Idle EXCEPT !.ret = jsonMap[n]]]
            /\ pc' = pc
       ELSE /\ loc' = [loc EXCEPT ![p] = [Idle EXCEPT !.name = n]]
            /\ pc' = [pc EXCEPT ![p] = "gj_lock"]
    /\ UNCHANGED <<searchPaths, jsonMap, keyLock, violenceCheck, files, watches,
                   pending, configs, gres, mainPkg, built>>

\* Entering the exclusive section of the key and looking the key up again.
gjLock(p) ==
    /\ pc[p] = "gj_lock"
    /\ LockFree(loc[p].name)
    /\ IF jsonMap[loc[p].name] # NoDoc
       THEN /\ loc' = [loc EXCEPT ![p] = [Idle EXCEPT !.ret = jsonMap[loc[p].name]]]
            /\ pc' = [pc EXCEPT ![p] = "done"]
            /\ UNCHANGED keyLock
       ELSE /\ keyLock' = [keyLock EXCEPT ![loc[p].name] = p]
            /\ pc' = [pc EXCEPT ![p] = "gj_paths"]
            /\ UNCHANGED loc
    /\ UNCHANGED <<searchPaths, jsonMap, violenceCheck, files, watches,
                   pending, configs, gres, mainPkg, built>>

\* A nil *gjson.Json returned as a non-nil interface value.
TypedNil == [NoDoc EXCEPT !.src = "typednil"]

\* The parse error returns the nil document j instead of nil.
LoadDocTypedNil(src, path, content) ==
    IF ParseOk(content)
    THEN [src |-> src, path |-> path, content |-> content, vc |-> violenceCheck]
    ELSE TypedNil

\* The document parsed from content, or nil on a parse error.
LoadDoc(src, path, content) ==
    IF ParseOk(content)
    THEN [src |-> src, path |-> path, content |-> content, vc |-> violenceCheck]
    ELSE NoDoc

\* A monitor is added for every file path, overlay or not.
WatchWantedAnyFile(filePath) == filePath # Empty

\* A monitor is added for the file of a parsed document when the document
\* has a file path and the path is not one of the overlay.
WatchWanted(filePath) == filePath # Empty /\ ~gresContains(filePath)

\* GetContent(name): inline content wins (no file path); else
\* c.filePath(name): the search paths are read and the file is resolved.
gjPaths(p) ==
    /\ pc[p] = "gj_paths"
    /\ IF configs[loc[p].name] # Empty
       THEN LET d == LoadDoc("inline", Empty, configs[loc[p].name][1])
            IN  /\ loc' = [loc EXCEPT ![p].doc = d]
                /\ pc' = [pc EXCEPT ![p] = IF d # NoDoc /\ WatchWanted(Empty)
                                           THEN "gj_watch" ELSE "gj_store"]
       ELSE LET f == FilePath(loc[p].name, searchPaths)
            IN  /\ loc' = [loc EXCEPT ![p].file = f]
                /\ pc' = [pc EXCEPT ![p] = IF f = Empty THEN "gj_store" ELSE "gj_read"]
    /\ UNCHANGED <<searchPaths, jsonMap, keyLock, violenceCheck, files, watches,
                   pending, configs, gres, mainPkg, built>>

\* The content is read (overlay or file system) and parsed.
gjRead(p) ==
    /\ pc[p] = "gj_read"
    /\ LET f == loc[p].file
           d == IF gresGet(f) THEN LoadDoc("res", f, "ok")
                ELSE LoadDoc("file", f, files[f])
           w == d # NoDoc /\ WatchWanted(f)
       IN  /\ loc' = [loc EXCEPT ![p].doc = d]
           /\ pc' = [pc EXCEPT ![p] = IF w THEN "gj_watch" ELSE "gj_store"]
    /\ UNCHANGED <<searchPaths, jsonMap, keyLock, violenceCheck, files, watches,
                   pending, configs, gres, mainPkg, built>>

\* gfsnotify.Add(filePath, callback): the registration succeeds (one more
\* callback is added for the path) or fails, and the document is returned
\* in both cases.
gjWatch(p) ==
    /\ pc[p] = "gj_watch"
    /\ \/ /\ BagCardinality(watches) < MaxWatch
          /\ watches' = watches (+) SetToBag({<<loc[p].file, loc[p].name>>})
       \/ watches' = watches
    /\ pc' = [pc EXCEPT ![p] = "gj_store"]
    /\ UNCHANGED <<searchPaths, jsonMap, keyLock, violenceCheck, files,
                   pending, configs, gres, mainPkg, built, loc>>

\* The function returned: its value is stored (unless nil), the key is
\* released and getJson returns.
gjStore(p) ==
    /\ pc[p] = "gj_store"
    /\ LET n == loc[p].name
           d == loc[p].doc
       IN  /\ jsonMap' = mapStore(jsonMap, n, d)
           /\ keyLock' = mapUnlock(keyLock, n)
           /\ loc' = [loc EXCEPT ![p] = [Idle EXCEPT !.ret = d]]
    /\ pc' = [pc EXCEPT ![p] = "done"]
    /\ UNCHANGED <<searchPaths, violenceCheck, files, watches,
                   pending, configs, gres, mainPkg, built>>

\* c.FilePath(name): the call returns the resolved path (file) of name.
FilePathCall(p, n) ==
    /\ pc[p] = "done"
    /\ loc' = [loc EXCEPT ![p] = [Idle EXCEPT !.name = n,
                                             !.file = FilePath(n, searchPaths)]]
    /\ UNCHANGED <<searchPaths, jsonMap, keyLock, violenceCheck, files, watches,
                   pending, configs, gres, mainPkg, built, pc>>

\* ------------------------------------------------------------------------
\* AddPath
\* ------------------------------------------------------------------------
\* AddPath without its repeated path check.
AddPathRepeatedNever(array, real) == FALSE

\* The repeated path check of AddPath.
AddPathRepeated(array, real) == arraySearch(array, real)

\* AddPath without its directory type check: a file goes on to be appended.
AddPathCallNoDirCheck(p, path) ==
    /\ pc[p] = "done"
    /\ LET r == ResolveDir(path, searchPaths)
       IN  IF r.real = Empty
           THEN /\ loc' = [loc EXCEPT ![p] = [Idle EXCEPT !.err = TRUE]]
                /\ pc' = pc
           ELSE /\ loc' = [loc EXCEPT ![p] = [Idle EXCEPT !.real = r.real]]
                /\ pc' = [pc EXCEPT ![p] = "ap_check"]
    /\ UNCHANGED <<searchPaths, jsonMap, keyLock, violenceCheck, files, watches,
                   pending, configs, gres, mainPkg, built>>

\* AddPath(path), up to the error returns.
AddPathCall(p, path) ==
    /\ pc[p] = "done"
    /\ LET r == ResolveDir(path, searchPaths)
       IN  IF r.real = Empty \/ ~r.isDir
           THEN /\ loc' = [loc EXCEPT ![p] = [Idle EXCEPT !.err = TRUE]]
                /\ pc' = pc
           ELSE /\ loc' = [loc EXCEPT ![p] = [Idle EXCEPT !.real = r.real]]
                /\ pc' = [pc EXCEPT ![p] = "ap_check"]
    /\ UNCHANGED <<searchPaths, jsonMap, keyLock, violenceCheck, files, watches,
                   pending, configs, gres, mainPkg, built>>

apCheck(p) ==
    /\ pc[p] = "ap_check"
    /\ IF AddPathRepeated(searchPaths, loc[p].real)
       THEN /\ pc' = [pc EXCEPT ![p] = "done"]
            /\ loc' = [loc EXCEPT ![p] = Idle]
       ELSE /\ pc' = [pc EXCEPT ![p] = "ap_append"]
            /\ UNCHANGED loc
    /\ UNCHANGED <<searchPaths, jsonMap, keyLock, violenceCheck, files, watches,
                   pending, configs, gres, mainPkg, built>>

apAppend(p) ==
    /\ pc[p] = "ap_append"
    /\ Len(searchPaths) < MaxPaths
    /\ searchPaths' = Append(searchPaths, loc[p].real)
    /\ pc' = [pc EXCEPT ![p] = "done"]
    /\ loc' = [loc EXCEPT ![p] = Idle]
    /\ UNCHANGED <<jsonMap, keyLock, violenceCheck, files, watches,
                   pending, configs, gres, mainPkg, built>>

\* ------------------------------------------------------------------------
\* SetPath
\* ------------------------------------------------------------------------
\* The repeated path check of SetPath.
SetPathRepeated(array, real) == arraySearch(array, real)

SetPathCall(p, path) ==
    /\ pc[p] = "done"
    /\ LET r == ResolveDir(path, searchPaths)
       IN  IF r.real = Empty \/ ~r.isDir
           THEN /\ loc' = [loc EXCEPT ![p] = [Idle EXCEPT !.err = TRUE]]
                /\ pc' = pc
           ELSE /\ loc' = [loc EXCEPT ![p] = [Idle EXCEPT !.real = r.real]]
                /\ pc' = [pc EXCEPT ![p] = "sp_check"]
    /\ UNCHANGED <<searchPaths, jsonMap, keyLock, violenceCheck, files, watches,
                   pending, configs, gres, mainPkg, built>>

spCheck(p) ==
    /\ pc[p] = "sp_check"
    /\ IF SetPathRepeated(searchPaths, loc[p].real)
       THEN /\ pc' = [pc EXCEPT ![p] = "done"]
            /\ loc' = [loc EXCEPT ![p] = Idle]
       ELSE /\ pc' = [pc EXCEPT ![p] = "sp_clearmap"]
            /\ UNCHANGED loc
    /\ UNCHANGED <<searchPaths, jsonMap, keyLock, violenceCheck, files, watches,
                   pending, configs, gres, mainPkg, built>>

\* c.jsonMap.Clear()
spClearMap(p) ==
    /\ pc[p] = "sp_clearmap"
    /\ jsonMap' = mapClear(jsonMap)
    /\ pc' = [pc EXCEPT ![p] = "sp_clear"]
    /\ UNCHANGED <<searchPaths, keyLock, violenceCheck, files, watches,
                   pending, configs, gres, mainPkg, built, loc>>

\* c.searchPaths.Clear()
spClear(p) ==
    /\ pc[p] = "sp_clear"
    /\ searchPaths' = <<>>
    /\ pc' = [pc EXCEPT ![p] = "sp_append"]
    /\ UNCHANGED <<jsonMap, keyLock, violenceCheck, files, watches,
                   pending, configs, gres, mainPkg, built, loc>>

\* c.searchPaths.Append(realPath)
spAppend(p) ==
    /\ pc[p] = "sp_append"
    /\ Len(searchPaths) < MaxPaths
    /\ searchPaths' = Append(searchPaths, loc[p].real)
    /\ pc' = [pc EXCEPT ![p] = "done"]
    /\ loc' = [loc EXCEPT ![p] = Idle]
    /\ UNCHANGED <<jsonMap, keyLock, violenceCheck, files, watches,
                   pending, configs, gres, mainPkg, built>>

\* ------------------------------------------------------------------------
\* The file system and its change notifications
\* ------------------------------------------------------------------------
\* A callback that leaves the map alone.
watchCallbackNone(m, name) == m

\* A callback that clears the map.
watchCallbackClear(m, name) == mapClear(m)

\* The callback getJson registers: it removes the name's entry.
watchCallback(m, name) == mapRemove(m, name)

RECURSIVE RunCallbacks(_, _)
RunCallbacks(m, names) ==
    IF names = {} THEN m
    ELSE LET n == CHOOSE x \in names : TRUE
         IN  RunCallbacks(watchCallback(m, n), names \ {n})

WatchedNames(f) == {n \in Names : BagIn(<<f, n>>, watches)}

\* A file is written; a watched file gets a change event.
WriteFile(f, c) ==
    /\ f \in Mutable
    /\ files' = [files EXCEPT ![f] = c]
    /\ pending' = IF WatchedNames(f) # {} THEN pending \cup {f} ELSE pending
    /\ UNCHANGED <<searchPaths, jsonMap, keyLock, violenceCheck, watches,
                   configs, gres, mainPkg, built, pc, loc>>

\* The change event of file f is delivered: its callbacks run.
DeliverEvent(f) ==
    /\ f \in pending
    /\ pending' = pending \ {f}
    /\ jsonMap' = RunCallbacks(jsonMap, WatchedNames(f))
    /\ UNCHANGED <<searchPaths, keyLock, violenceCheck, files, watches,
                   configs, gres, mainPkg, built, pc, loc>>

\* ------------------------------------------------------------------------
\* SetViolenceCheck
\* ------------------------------------------------------------------------
\* c.violenceCheck = check
svSet(p, check) ==
    /\ pc[p] = "done"
    /\ violenceCheck' = check
    /\ pc' = [pc EXCEPT ![p] = "sv_clear"]
    /\ loc' = [loc EXCEPT ![p] = Idle]
    /\ UNCHANGED <<searchPaths, jsonMap, keyLock, files, watches,
                   pending, configs, gres, mainPkg, built>>

\* c.Clear(): all keys of the cache are removed, and the call returns.
svClear(p) ==
    /\ pc[p] = "sv_clear"
    /\ jsonMap' = mapClear(jsonMap)
    /\ pc' = [pc EXCEPT ![p] = "done"]
    /\ UNCHANGED <<searchPaths, keyLock, violenceCheck, files, watches,
                   pending, configs, gres, mainPkg, built, loc>>

\* ------------------------------------------------------------------------
\* Inline content
\* ------------------------------------------------------------------------
\* SetContent(content, name): content is registered for the name, and
\* GetContent(name) returns it from then on.
SetContent(n, c) ==
    /\ configs' = [configs EXCEPT ![n] = <<c>>]
    /\ UNCHANGED <<searchPaths, jsonMap, keyLock, violenceCheck, files, watches,
                   pending, gres, mainPkg, built, pc, loc>>

\* ------------------------------------------------------------------------
\* State after construction
\* ------------------------------------------------------------------------
\* The array after a call of AddPath(path) that nothing interleaves with.
AddPathTo(array, path) ==
    LET r == ResolveDir(path, array)
    IN  IF r.real = Empty \/ ~r.isDir \/ AddPathRepeated(array, r.real) THEN array
        ELSE Append(array, r.real)

\* The array after a call of SetPath(path) that nothing interleaves with.
SetPathTo(array, path) ==
    LET r == ResolveDir(path, array)
    IN  IF r.real = Empty \/ ~r.isDir \/ SetPathRepeated(array, r.real) THEN array
        ELSE <<r.real>>

\* New(): the search paths of a new Config, customPath being the value of
\* gf.gcfg.path (Empty when it is not given).
NewPaths(customPath) ==
    IF customPath # Empty
    THEN IF RealPath(customPath) # Empty THEN SetPathTo(<<>>, customPath) ELSE <<>>
    ELSE LET a1 == IF mainPkg # Empty /\ RealPath(mainPkg) # Empty
                   THEN AddPathTo(<<>>, mainPkg) ELSE <<>>
             a2 == IF SelfDir # Empty /\ RealPath(SelfDir) # Empty
                   THEN AddPathTo(a1, SelfDir) ELSE a1
         IN  AddPathTo(a2, Pwd)

\* The resource overlay of the process: nothing is packed into the binary.
GresChoices == { [dirs |-> {}, files |-> {}] }

\* gf.gcfg.path: not given, a path that does not exist, a directory.
CustomPaths == {Empty, NoDir, DirB}

\* The state New() returns. The binary runs without its source tree:
\* gfile.MainPkgPath() is "".
Init ==
    /\ gres \in GresChoices
    /\ mainPkg = Empty
    /\ files = [f \in FsFiles |-> "ok"]
    /\ \E customPath \in CustomPaths : searchPaths = NewPaths(customPath)
    /\ jsonMap = [n \in Names |-> NoDoc]
    /\ keyLock = [n \in Names |-> NoProc]
    /\ violenceCheck = FALSE
    /\ watches = EmptyBag
    /\ pending = {}
    /\ configs = [n \in Names |-> Empty]
    /\ built = [k \in Keys |-> 0]
    /\ pc = [p \in Procs |-> "done"]
    /\ loc = [p \in Procs |-> Idle]

\* ------------------------------------------------------------------------
\* Instance
\* ------------------------------------------------------------------------
\* The configuration file name of key with file type t.
KeyFile(key, t) == <<key \o "." \o t>>

\* c.Available(file) of a Config whose search path array is array.
Available(file, array) ==
    \/ FilePath(file, array) # Empty
    \/ file \in DOMAIN configs /\ configs[file] # Empty

\* The function Instance gives to GetOrSetFuncLock: the Config it builds
\* for key, as the id-th Config built for the key. gcfg.New() gives the
\* array it gave at Init (same process), SetPath("./config/dev/") follows,
\* and the first available file of the key becomes the default name.
DevPath == <<".", "/", "config", "/", "dev", "/">>

NewInstance(key, id) ==
    LET array == SetPathTo(searchPaths, DevPath)
        avail == {i \in 1..Len(supportedFileTypes) :
                     Available(KeyFile(key, supportedFileTypes[i]), array)}
    IN  [key |-> key, id |-> id, paths |-> array,
         defaultName |-> IF avail = {} THEN DefaultConfigFile
                         ELSE KeyFile(key, supportedFileTypes[Min(avail)])]

\* Instance(name...): instances is a new, empty map in every call, so the
\* lookup of GetOrSetFuncLock misses and the function runs.
InstanceCall(p, name) ==
    /\ pc[p] = "done"
    /\ LET key == IF name # "" THEN name ELSE DefaultKey
           instances == [k \in Keys |-> NoHandle]
       IN  IF instances[key] # NoHandle
           THEN /\ loc' = [loc EXCEPT ![p] = [Idle EXCEPT !.inst = instances[key]]]
                /\ UNCHANGED built
           ELSE /\ built[key] < MaxBuilt
                /\ built' = [built EXCEPT ![key] = built[key] + 1]
                /\ loc' = [loc EXCEPT ![p] =
                              [Idle EXCEPT !.inst = NewInstance(key, built[key] + 1)]]
    /\ UNCHANGED <<searchPaths, jsonMap, keyLock, violenceCheck, files, watches,
                   pending, configs, gres, mainPkg, pc>>

\* Processes that differ in what surrounds the Config: the overlay packed
\* into the binary (nothing, or config/x.json), the main package directory
\* (not found, or /a when the binary runs inside its source tree) and the
\* files of /b.
GresEnv == { [dirs |-> {}, files |-> {}],
             [dirs |-> {<<"config">>}, files |-> {<<"config", "/", "x.json">>}] }

MainPkgs == {Empty, DirA}

InitEnv ==
    /\ gres \in GresEnv
    /\ mainPkg \in MainPkgs
    /\ files = [f \in FsFilesBoth |-> "ok"]
    /\ \E customPath \in CustomPaths : searchPaths = NewPaths(customPath)
    /\ jsonMap = [n \in Names |-> NoDoc]
    /\ keyLock = [n \in Names |-> NoProc]
    /\ violenceCheck = FALSE
    /\ watches = EmptyBag
    /\ pending = {}
    /\ configs = [n \in Names |-> Empty]
    /\ built = [k \in Keys |-> 0]
    /\ pc = [p \in Procs |-> "done"]
    /\ loc = [p \in Procs |-> Idle]

\* ------------------------------------------------------------------------
\* Specifications
\* ------------------------------------------------------------------------
Fetch(p) ==
    \/ \E n \in Names : getJsonCall(p, n)
    \/ gjLock(p)
    \/ gjPaths(p)
    \/ gjRead(p)
    \/ gjWatch(p)
    \/ gjStore(p)

\* AddPath and SetPath calls of goroutine p with arguments of args.
PathsWith(p, args) ==
    \/ \E path \in args : AddPathCall(p, path)
    \/ apCheck(p)
    \/ apAppend(p)
    \/ \E path \in args : SetPathCall(p, path)
    \/ spCheck(p)
    \/ spClearMap(p)
    \/ spClear(p)
    \/ spAppend(p)

Paths(p) == PathsWith(p, PathArgs)

Env ==
    \/ \E f \in Mutable, c \in Contents : WriteFile(f, c)
    \/ \E f \in FsFiles : DeliverEvent(f)

Next ==
    \/ \E p \in Procs : Fetch(p)
    \/ \E p \in Procs : Paths(p)
    \/ Env

Spec == Init /\ [][Next]_vars

\* The same program when one goroutine alone changes the search paths
\* (its AddPath / SetPath calls follow one another), beside the fetches.
Mutator == "g1"

NextSeq ==
    \/ \E p \in Procs : Fetch(p)
    \/ Paths(Mutator)
    \/ Env

SpecSeq == Init /\ [][NextSeq]_vars

Flag(p) ==
    \/ \E check \in BOOLEAN : svSet(p, check)
    \/ svClear(p)

\* Fetches while the violence check flag is set.
NextFlag ==
    \/ \E p \in Procs : Fetch(p)
    \/ \E p \in Procs : Flag(p)

SpecFlag == Init /\ [][NextFlag]_vars

\* Fetches while inline content is registered.
NextContent ==
    \/ \E p \in Procs : Fetch(p)
    \/ \E n \in Names, c \in Contents : SetContent(n, c)

SpecContent == Init /\ [][NextContent]_vars

\* Calls of Instance by the goroutines.
NextInst == \E p \in Procs : \E name \in InstArgs : InstanceCall(p, name)

SpecInst == Init /\ [][NextInst]_vars

\* Fetches of names whose content comes from the overlay, from inline
\* content or from files that are written meanwhile.
InitSource ==
    /\ gres \in GresEnv
    /\ mainPkg = Empty
    /\ files = [f \in FsFiles |-> "ok"]
    /\ searchPaths = NewPaths(Empty)
    /\ jsonMap = [n \in Names |-> NoDoc]
    /\ keyLock = [n \in Names |-> NoProc]
    /\ violenceCheck = FALSE
    /\ watches = EmptyBag
    /\ pending = {}
    /\ configs = [n \in Names |-> Empty]
    /\ built = [k \in Keys |-> 0]
    /\ pc = [p \in Procs |-> "done"]
    /\ loc = [p \in Procs |-> Idle]

NextSource ==
    \/ \E p \in Procs : Fetch(p)
    \/ \E n \in Names, c \in Contents : SetContent(n, c)
    \/ Env

SpecSource == InitSource /\ [][NextSource]_vars

\* Every operation of a handle, by every goroutine, under fair scheduling:
\* the goroutines fetch x.json, add and set the directory /b, set the
\* violence check, while the file of x.json is rewritten and its change
\* events are delivered.
LiveName == NameX
LiveArgs == {DirB}
LiveFile == FileAX

InitLive == Init /\ searchPaths = NewPaths(Empty)

FetchLive(p) ==
    \/ getJsonCall(p, LiveName)
    \/ gjLock(p)
    \/ gjPaths(p)
    \/ gjRead(p)
    \/ gjWatch(p)
    \/ gjStore(p)

FlagLive(p) ==
    \/ svSet(p, TRUE)
    \/ svClear(p)

EnvLive ==
    \/ WriteFile(LiveFile, "ok")
    \/ DeliverEvent(LiveFile)

NextLive ==
    \/ \E p \in Procs : FetchLive(p)
    \/ \E p \in Procs : PathsWith(p, LiveArgs)
    \/ \E p \in Procs : FlagLive(p)
    \/ EnvLive

\* The steps of goroutine p inside an operation it has started.
Step(p) ==
    \/ gjLock(p) \/ gjPaths(p) \/ gjRead(p) \/ gjWatch(p) \/ gjStore(p)
    \/ apCheck(p) \/ apAppend(p)
    \/ spCheck(p) \/ spClearMap(p) \/ spClear(p) \/ spAppend(p)
    \/ svClear(p)

\* A goroutine inside an operation takes its next step; a goroutine that
\* waits for a key gets it when the key is free again and again (a waiter
\* of a Go mutex is not starved); a pending change event is delivered.
Fairness ==
    /\ \A p \in Procs : SF_vars(Step(p))
    /\ WF_vars(DeliverEvent(LiveFile))

SpecLive == InitLive /\ [][NextLive]_vars /\ Fairness

\* Path management and resolution by one goroutine, in every process of
\* InitEnv.
EnvPathArgs == {DirA, DirB, DirAConfig, NoDir}

NextResolve ==
    \/ PathsWith(Mutator, EnvPathArgs)
    \/ \E n \in Names : FilePathCall(Mutator, n)

SpecResolve == InitEnv /\ [][NextResolve]_vars

\* ------------------------------------------------------------------------
\* Properties
\* ------------------------------------------------------------------------
\* Goroutine p runs the function given to GetOrSetFuncLock.
InCompute(p) == pc[p] \in {"gj_paths", "gj_read", "gj_watch", "gj_store"}

UnderSearchPaths(d) ==
    \/ \E k \in 1..Len(searchPaths) : IsPrefix(TrimRight(searchPaths[k]), d.path)
    \/ mainPkg # Empty /\ IsPrefix(mainPkg, d.path)

\* A SetPath call is between clearing the cache and appending its directory.
InSetPathWindow == \E q \in Procs : pc[q] \in {"sp_clear", "sp_append"}

\* C3 (as claimed): when no SetPath is in progress, every cached Document
\* that came from a file was resolved under a directory of the current
\* search path set: no Document of a replaced path set stays in the cache.
C3_NoStaleAfterSetPath ==
    ~InSetPathWindow =>
        \A n \in Names :
            (jsonMap[n] # NoDoc /\ jsonMap[n].src = "file") => UnderSearchPaths(jsonMap[n])

\* C4 (as claimed): a SetPath call that returns without error leaves the
\* cache empty and the search path set equal to <<resolved directory>>.
C4_SetPathReplaces ==
    [][\A p \in Procs :
         (pc[p] \in {"sp_check", "sp_append"} /\ pc'[p] = "done") =>
            /\ searchPaths' = <<loc[p].real>>
            /\ \A n \in Names : jsonMap'[n] = NoDoc]_vars

\* C5 (as claimed): the step in which a fetch reads the search path list
\* never happens while a SetPath has cleared the list and not yet appended
\* its directory, so the list read is the set before or after the SetPath.
C5_ReaderSeesWholeSet ==
    [][\A p \in Procs :
         (pc[p] = "gj_paths" /\ pc'[p] # "gj_paths" /\ configs[loc[p].name] = Empty) =>
            \A q \in Procs : pc[q] # "sp_append"]_vars

\* The change event of file f is delivered in this step.
Delivered(f) == f \in pending /\ ~(f \in pending')

\* C6: the delivery of a change event of a file removes the entry of the
\* name whose fetch registered the watch on that file, and a fetch returns
\* without running the function only when it finds an entry: after the
\* eviction the next fetch of the name runs the function again.
C6_Invalidation ==
    [][/\ \A f \in FsFiles : Delivered(f) =>
             \A n \in Names : BagIn(<<f, n>>, watches) => jsonMap'[n] = NoDoc
       /\ \A p \in Procs : \A n \in Names :
             (pc[p] = "done" /\ jsonMap[n] = NoDoc /\ getJsonCall(p, n)) =>
                pc'[p] = "gj_lock"
       /\ \A p \in Procs :
             (pc[p] = "gj_lock" /\ jsonMap[loc[p].name] = NoDoc /\ pc'[p] # "gj_lock") =>
                pc'[p] = "gj_paths"]_vars

\* C6 witness: x.json is cached from its file, the watch of the file is
\* registered and a change event of the file waits for delivery.
C6_Witness ==
    /\ jsonMap[NameX] # NoDoc
    /\ jsonMap[NameX].src = "file"
    /\ BagIn(<<jsonMap[NameX].path, NameX>>, watches)
    /\ jsonMap[NameX].path \in pending

\* C7: nothing but a parsed Document is ever stored. When the function
\* yields nil (no file, or a parse error) the name has no entry afterwards
\* and nil is returned; nil is returned only by a call that ran the function
\* itself, and a call whose function parsed valid content returns it.
C7_NoNegativeCaching ==
    /\ [](\A n \in Names :
            jsonMap[n] # NoDoc =>
               jsonMap[n].src \in {"file", "res", "inline"} /\ ParseOk(jsonMap[n].content))
    /\ [][\A p \in Procs :
            /\ (pc[p] = "gj_store" /\ pc'[p] = "done" /\ loc[p].doc = NoDoc) =>
                  jsonMap'[loc[p].name] = NoDoc /\ loc'[p].ret = NoDoc
            /\ (pc[p] = "gj_lock" /\ pc'[p] = "done") => loc'[p].ret # NoDoc
            /\ (pc[p] = "gj_read" /\ pc'[p] # "gj_read" /\ loc[p].file \in FsFiles
                  /\ files[loc[p].file] = "ok") =>
                  loc'[p].doc # NoDoc /\ loc'[p].doc.content = "ok"]_vars

\* C7 witness: the function of x.json found the file and failed to parse
\* it, and the file has valid content again before the call returns nil.
C7_Witness ==
    \E p \in Procs :
        /\ pc[p] = "gj_store" /\ loc[p].name = NameX
        /\ loc[p].file = FileAX /\ loc[p].doc = NoDoc
        /\ files[FileAX] = "ok"

\* C8: the delivery of a change event changes no entry of the map but the
\* one of the name watched on that file.
C8_EvictsOnlyItsName ==
    [][\A f \in FsFiles : Delivered(f) =>
          \A m \in Names : ~BagIn(<<f, m>>, watches) => jsonMap'[m] = jsonMap[m]]_vars

\* C8 witness: a change event of x.json's file waits for delivery while
\* x.json and y.json are both cached.
C8_Witness ==
    /\ FileAX \in pending
    /\ BagIn(<<FileAX, NameX>>, watches)
    /\ jsonMap[NameX] # NoDoc
    /\ jsonMap[NameY] # NoDoc

\* C9 (as claimed): the search path array holds no empty string and no
\* directory twice.
C9_NoEmptyNoDuplicate ==
    /\ \A i \in 1..Len(searchPaths) : searchPaths[i] # Empty
    /\ \A i, j \in 1..Len(searchPaths) : searchPaths[i] = searchPaths[j] => i = j

\* C10: AddPath calls that follow one another. A call whose directory is
\* in the array returns nil and leaves the array as it is; a call whose
\* directory is not in it appends the directory at the end.
C10_AddPathIdempotent ==
    [][\A p \in Procs :
         /\ (pc[p] = "ap_check" /\ pc'[p] # "ap_check"
                /\ arraySearch(searchPaths, loc[p].real)) =>
               /\ pc'[p] = "done"
               /\ searchPaths' = searchPaths
               /\ ~loc'[p].err
         /\ (pc[p] = "ap_append" /\ pc'[p] = "done") =>
               /\ ~arraySearch(searchPaths, loc[p].real)
               /\ searchPaths' = Append(searchPaths, loc[p].real)
               /\ ~loc'[p].err]_vars

\* C10 witness: a second AddPath of a directory that is in the array is
\* about to make its repeated path check.
C10_Witness ==
    /\ pc[Mutator] = "ap_check"
    /\ arraySearch(searchPaths, loc[Mutator].real)
    /\ Len(searchPaths) = 2

\* C11: an AddPath or SetPath call whose path resolves to nothing or to a
\* non-directory returns an error at its checks, with the search path array
\* as it was: it never goes on to the part that changes the array (a call
\* goes on only with an existing directory), and a call that went past its
\* checks never returns an error.
C11_FailureLeavesSet ==
    [][\A p \in Procs :
         /\ (pc[p] = "done" /\ pc'[p] \in {"ap_check", "sp_check"}) =>
               loc'[p].real \in (FsDirs \cup gres.dirs)
         /\ (pc[p] = "done" /\ pc'[p] = "done" /\ loc'[p] # loc[p]) =>
               \A path \in PathArgs :
                  LET r == ResolveDir(path, searchPaths)
                  IN  ((r.real = Empty \/ ~r.isDir)
                         /\ (AddPathCall(p, path) \/ SetPathCall(p, path))) =>
                        /\ loc'[p].err
                        /\ searchPaths' = searchPaths
         /\ (pc[p] \in {"ap_check", "ap_append", "sp_check", "sp_clearmap",
                         "sp_clear", "sp_append"} /\ pc'[p] = "done") => ~loc'[p].err]_vars

\* C11 witness: a call has returned an error while the array holds a
\* directory, and a call with a path that is a file can be made.
C11_Witness ==
    \E p \in Procs :
        /\ pc[p] = "done" /\ loc[p].err
        /\ searchPaths # <<>>
        /\ ResolveDir(NameX, searchPaths).real # Empty
        /\ ~ResolveDir(NameX, searchPaths).isDir

\* The file name exists in directory d: directly or in its config
\* subdirectory, the two places resolution looks at.
InDir(d, name) ==
    \/ spathSearch(TrimRight(d), name) # Empty
    \/ spathSearch(TrimRight(d) \o <<Sep, "config">>, name) # Empty

\* Path f lies under directory d.
Under(d, f) == IsPrefix(TrimRight(d), f)

\* C12 (as claimed): FilePath has returned for a name while the search path
\* array is [A, B], the name exists in A and in B and the overlay gave no
\* hit: the path returned lies under A.
C12_OrderSensitivity ==
    \A p \in Procs : \A n \in Names :
        (/\ pc[p] = "done" /\ loc[p].name = n
         /\ Len(searchPaths) = 2
         /\ InDir(searchPaths[1], n) /\ InDir(searchPaths[2], n)
         /\ ~gresGet(loc[p].file))
        => Under(searchPaths[1], loc[p].file)

\* C13 (as claimed): the search path array is [P], what a SetPath(P) that
\* replaced the array leaves (New() makes this call for an existing
\* gf.gcfg.path). FilePath has returned a path of the file system for a
\* name: the path lies under a directory of the array, and under P when the
\* name exists in P.
C13_CustomRootPrecedence ==
    \A p \in Procs : \A n \in Names :
        (/\ pc[p] = "done" /\ loc[p].name = n
         /\ Len(searchPaths) = 1
         /\ loc[p].file # Empty
         /\ ~gresGet(loc[p].file))
        => /\ \E k \in 1..Len(searchPaths) : Under(searchPaths[k], loc[p].file)
           /\ InDir(searchPaths[1], n) => Under(searchPaths[1], loc[p].file)

\* C14 (as claimed): a fetch of a name that returns a Document while inline
\* content is registered for the name returns a Document parsed from the
\* inline content, whether the fetch finds an entry or runs the function.
C14_InlineWins ==
    [][\A p \in Procs : \A n \in Names :
         /\ (pc[p] = "done" /\ configs[n] # Empty /\ jsonMap[n] # NoDoc
                /\ getJsonCall(p, n)) =>
               loc'[p].ret.src = "inline"
         /\ (pc[p] \in {"gj_lock", "gj_store"} /\ pc'[p] = "done"
                /\ loc[p].name = n /\ configs[n] # Empty /\ loc'[p].ret # NoDoc) =>
               loc'[p].ret.src = "inline"]_vars

\* C15 (as claimed): the construction function of Instance runs at most
\* once per key, and two goroutines that called Instance with the same key
\* hold the same Config.
C15_SingletonPerKey ==
    /\ \A k \in Keys : built[k] <= 1
    /\ \A p, q \in Procs :
          (loc[p].inst # NoHandle /\ loc[p].inst.key = loc[q].inst.key) =>
             loc[p].inst = loc[q].inst

\* C16 (as claimed): in the process of this state, New() with a
\* gf.gcfg.path that is given but does not exist builds the search path
\* array that New() builds when no gf.gcfg.path is given.
C16_NewFallback ==
    \A customPath \in CustomPaths :
        (customPath # Empty /\ RealPath(customPath) = Empty) =>
           NewPaths(customPath) = NewPaths(Empty)

C18_WatchIdempotent ==
    \A f \in DOMAIN files : \A n \in Names : CopiesIn(<<f, n>>, watches) <= 1

\* C19: a callback is registered only by a fetch whose function parsed a
\* Document from a file of the file system that is not in the overlay
\* (never for overlay content, inline content or a failed parse), for that
\* file and name; a registration that fails leaves the Document to the
\* function, and the Document a function yields is stored and returned.
C19_WatchPerSource ==
    [][/\ watches' # watches =>
             \E p \in Procs :
                /\ pc[p] = "gj_watch" /\ pc'[p] = "gj_store"
                /\ loc[p].doc # NoDoc
                /\ loc[p].doc.src = "file"
                /\ loc[p].doc.path = loc[p].file
                /\ loc[p].file \in DOMAIN files
                /\ ~(loc[p].file \in gres.files)
                /\ watches' = watches (+) SetToBag({<<loc[p].file, loc[p].name>>})
       /\ \A p \in Procs :
             /\ (pc[p] = "gj_watch" /\ pc'[p] # "gj_watch" /\ watches' = watches) =>
                   /\ pc'[p] = "gj_store"
                   /\ loc'[p].doc = loc[p].doc
                   /\ loc'[p].doc # NoDoc
             /\ (pc[p] = "gj_store" /\ pc'[p] = "done" /\ loc[p].doc # NoDoc) =>
                   /\ jsonMap'[loc[p].name] = loc[p].doc
                   /\ loc'[p].ret = loc[p].doc]_vars

\* C19 witness: x.json is cached from the overlay with no callback, and the
\* function of y.json parsed its file, the registration of the callback
\* failed and the Document is about to be stored.
C19_Witness ==
    \E p \in Procs :
        /\ jsonMap[NameX] # NoDoc /\ jsonMap[NameX].src = "res"
        /\ pc[p] = "gj_store" /\ loc[p].name = NameY
        /\ loc[p].doc # NoDoc /\ loc[p].doc.src = "file"
        /\ watches = EmptyBag

\* C20: under fair scheduling every started operation returns: whatever
\* the other goroutine and the change events do, a goroutine is again and
\* again outside of any fetch, AddPath, SetPath or SetViolenceCheck call
\* (so a call it is in has returned), and a pending change event has its
\* callbacks run.
C20_Termination ==
    /\ \A p \in Procs : []<>(pc[p] = "done")
    /\ \A f \in FsFiles : []<>(~(f \in pending))

\* C20 witness: one goroutine waits for the key another goroutine computes,
\* while a change event of a watched file is pending.
C20_Witness ==
    \E p, q \in Procs :
        /\ pc[p] = "gj_lock" /\ keyLock[loc[p].name] = q /\ q # p
        /\ pending # {}

C22_AddPathKeepsResolution ==
    [][\A p \in Procs :
          (pc[p] \in {"ap_check", "ap_append"} /\ pc'[p] = "done" /\ ~loc'[p].err) =>
             \A n \in Names :
                FilePath(n, searchPaths) # Empty =>
                   FilePath(n, searchPaths') = FilePath(n, searchPaths)]_vars

====
